---- MODULE Spec2Model ----
(***************************************************************************)
(* A model of src/header/value.rs: the HeaderValue container (a byte       *)
(* buffer plus a sensitivity flag), its validating and unchecked           *)
(* constructors, the integer conversions, to_str, the Debug renderer, the  *)
(* comparisons and the derived Hash.                                        *)
(*                                                                         *)
(* Bytes are the integers 0..255; a buffer, a text and a rendering are     *)
(* sequences of bytes.  A container is a record                            *)
(*   [live, inner, is_sensitive]                                           *)
(* where live = FALSE stands for a handle that holds no container.         *)
(***************************************************************************)
EXTENDS Integers, Sequences, FiniteSets, TLC

VARIABLES vals, last, debug_assertions, target_pointer_width

vars == <<vals, last, debug_assertions, target_pointer_width>>

----------------------------------------------------------------------------
(* Bounds of the model *)

\* longest generated byte sequence over Alphabet
MaxLen == 2

----------------------------------------------------------------------------
(* Byte texts used by the source's tests and doc examples *)

\* "hello"
Hello == <<104, 101, 108, 108, 111>>

\* "hello \"world\""
HelloWorld == <<104, 101, 108, 108, 111, 32, 34, 119, 111, 114, 108, 100, 34>>

\* "\u{7FFF}hello": the UTF-8 encoding e7 bf bf of U+7FFF, then hello
U7FFFHello == <<231, 191, 191, 104, 101, 108, 108, 111>>

\* "password"
Password == <<112, 97, 115, 115, 119, 111, 114, 100>>

\* b"hello\xfa"
HelloFa == <<104, 101, 108, 108, 111, 250>>

\* "upgrade"
Upgrade == <<117, 112, 103, 114, 97, 100, 101>>

\* "hello-world"
HelloDashWorld == <<104, 101, 108, 108, 111, 45, 119, 111, 114, 108, 100>>

\* "accept"
Accept == <<97, 99, 99, 101, 112, 116>>

\* "sec-websocket-protocol"
SecWebsocketProtocol ==
  <<115, 101, 99, 45, 119, 101, 98, 115, 111, 99, 107, 101, 116, 45,
    112, 114, 111, 116, 111, 99, 111, 108>>

\* the literal Sensitive written by the Debug renderer
SensitiveText == <<83, 101, 110, 115, 105, 116, 105, 118, 101>>

\* "0123456789abcdef": the digits core::fmt::LowerHex writes
HexDigits == <<48, 49, 50, 51, 52, 53, 54, 55, 56, 57, 97, 98, 99, 100, 101, 102>>

----------------------------------------------------------------------------
(* Byte Validator *)

is_visible_ascii(b) == (b >= 32 /\ b < 127) \/ b = 9

\* is_valid without the opaque octets 128..255
is_valid_ascii_only(b) == (b >= 32 /\ b < 127) \/ b = 9

is_valid(b) == (b >= 32 /\ b # 127) \/ b = 9

----------------------------------------------------------------------------
(* Containers and handles *)

Handles == {"a", "b"}

NoValue == [live |-> FALSE, inner |-> <<>>, is_sensitive |-> FALSE]

\* the struct literal HeaderValue { inner: .., is_sensitive: .. }
HeaderValue(inner, sens) == [live |-> TRUE, inner |-> inner, is_sensitive |-> sens]

NoNum == [ty |-> "none", neg |-> FALSE, mag |-> <<>>]

NoLast ==
  [op |-> "none", h |-> "a", h2 |-> "a", src |-> <<>>, num |-> NoNum,
   kind |-> "none", out |-> <<>>, flag |-> FALSE, alloc |-> FALSE,
   pre |-> NoValue, pre2 |-> NoValue]

\* for &b in src { if !pred(b) { return Err } }: the index of the first byte
\* that fails is_valid, or 0 when the loop runs to the end
RECURSIVE FirstInvalid(_, _)
FirstInvalid(src, i) ==
  IF i > Len(src) THEN 0
  ELSE IF ~is_valid(src[i]) THEN i
  ELSE FirstInvalid(src, i + 1)

\* the same loop over is_visible_ascii (from_static, to_str)
RECURSIVE FirstInvisible(_, _)
FirstInvisible(src, i) ==
  IF i > Len(src) THEN 0
  ELSE IF ~is_visible_ascii(src[i]) THEN i
  ELSE FirstInvisible(src, i + 1)

\* HeaderValue::try_from: Err(InvalidHeaderValue) at the first invalid byte,
\* else Ok(HeaderValue { inner: src.into(), is_sensitive: false })
try_from(src) ==
  IF FirstInvalid(src, 1) # 0
  THEN [kind |-> "InvalidHeaderValue", val |-> NoValue]
  ELSE [kind |-> "Ok", val |-> HeaderValue(src, FALSE)]

\* from_static validating with is_valid, as the other constructors do
from_static_with_is_valid(src) ==
  IF FirstInvalid(src, 1) # 0
  THEN [kind |-> "panic", val |-> NoValue]
  ELSE [kind |-> "Ok", val |-> HeaderValue(src, FALSE)]

\* HeaderValue::from_static: panics at the first byte that is not visible ASCII
from_static(src) ==
  IF FirstInvisible(src, 1) # 0
  THEN [kind |-> "panic", val |-> NoValue]
  ELSE [kind |-> "Ok", val |-> HeaderValue(src, FALSE)]

\* HeaderValue::from_str and HeaderValue::from_bytes
from_bytes(src) == try_from(src)

\* HeaderValue::from_shared: try_from(src).map_err(InvalidHeaderValueBytes)
from_shared(src) ==
  LET r == try_from(src) IN
  IF r.kind = "Ok" THEN r
  ELSE [kind |-> "InvalidHeaderValueBytes", val |-> NoValue]

\* from_shared_unchecked without the debug-build revalidation
from_shared_unchecked_no_revalidation(src, debug) ==
  [kind |-> "Ok", val |-> HeaderValue(src, FALSE)]

\* HeaderValue::from_shared_unchecked: revalidates under cfg!(debug_assertions)
from_shared_unchecked(src, debug) ==
  IF debug
  THEN LET r == from_shared(src) IN
       IF r.kind = "Ok" THEN r ELSE [kind |-> "panic", val |-> NoValue]
  ELSE [kind |-> "Ok", val |-> HeaderValue(src, FALSE)]

----------------------------------------------------------------------------
(* Text View *)

\* to_str scanning with is_valid instead of is_visible_ascii
to_str_with_is_valid(v) ==
  IF FirstInvalid(v.inner, 1) # 0
  THEN [kind |-> "ToStrError", out |-> <<>>]
  ELSE [kind |-> "Ok", out |-> v.inner]

\* HeaderValue::to_str: Err(ToStrError) at the first byte that is not visible
\* ASCII, else the buffer itself viewed as text
to_str(v) ==
  IF FirstInvisible(v.inner, 1) # 0
  THEN [kind |-> "ToStrError", out |-> <<>>]
  ELSE [kind |-> "Ok", out |-> v.inner]

----------------------------------------------------------------------------
(* Debug Renderer *)

\* write!(f, "{:x}", b) for a u8: the hex digits of b, most significant first,
\* with no padding
RECURSIVE LowerHex(_)
LowerHex(x) ==
  IF x < 16 THEN <<HexDigits[x + 1]>>
  ELSE LowerHex(x \div 16) \o <<HexDigits[(x % 16) + 1]>>

\* the for loop of fmt: i is the 0-based index of the byte looked at, from the
\* start of the run of bytes not yet written, out the text written so far
RECURSIVE FmtLoop(_, _, _, _)
FmtLoop(bytes, i, from, out) ==
  IF i >= Len(bytes)
  THEN out \o SubSeq(bytes, from + 1, Len(bytes)) \o <<34>>
  ELSE LET b == bytes[i + 1] IN
       IF ~is_visible_ascii(b) \/ b = 34
       THEN LET run == IF from # i THEN SubSeq(bytes, from + 1, i) ELSE <<>>
                esc == IF b = 34 THEN <<92, 34>> ELSE <<92, 120>> \o LowerHex(b)
            IN FmtLoop(bytes, i + 1, i + 1, out \o run \o esc)
       ELSE FmtLoop(bytes, i + 1, from, out)

\* a Debug renderer that never looks at the sensitivity flag
fmt_ignoring_sensitivity(v) == FmtLoop(v.inner, 0, 0, <<34>>)

\* <HeaderValue as fmt::Debug>::fmt
fmt(v) ==
  IF v.is_sensitive THEN SensitiveText
  ELSE FmtLoop(v.inner, 0, 0, <<34>>)

----------------------------------------------------------------------------
(* Comparator and Hash *)

\* <HeaderValue as PartialEq>::eq: self.inner == other.inner
eq(x, y) == x.inner = y.inner

\* <[u8] as Ord>::cmp: the first differing byte decides, else the lengths
RECURSIVE SliceCmp(_, _, _)
SliceCmp(x, y, i) ==
  IF i > Len(x) \/ i > Len(y)
  THEN IF Len(x) < Len(y) THEN "Less"
       ELSE IF Len(x) > Len(y) THEN "Greater" ELSE "Equal"
  ELSE IF x[i] < y[i] THEN "Less"
  ELSE IF x[i] > y[i] THEN "Greater"
  ELSE SliceCmp(x, y, i + 1)

\* a derived Ord: the fields in order, is_sensitive breaking ties
cmp_derived(x, y) ==
  LET c == SliceCmp(x.inner, y.inner, 1) IN
  IF c # "Equal" THEN c
  ELSE IF x.is_sensitive = y.is_sensitive THEN "Equal"
  ELSE IF y.is_sensitive THEN "Less" ELSE "Greater"

\* <HeaderValue as Ord>::cmp: self.inner.cmp(&other.inner)
cmp(x, y) == SliceCmp(x.inner, y.inner, 1)

\* #[derive(Hash)]: the data fed to the hasher, field by field: inner (a byte
\* slice: its length, then its bytes), then is_sensitive (one byte, 0 or 1)
hash(v) == <<Len(v.inner)>> \o v.inner \o <<IF v.is_sensitive THEN 1 ELSE 0>>

----------------------------------------------------------------------------
(* Numeric Encoder                                                         *)
(*                                                                         *)
(* An integer is [ty, neg, mag]: its type, its sign and its magnitude as   *)
(* base-10000 limbs, least significant first, without leading zero limbs   *)
(* (0 is the empty sequence), so that 64-bit values stay exact.            *)

IntTypes == {"u16", "i16", "u32", "i32", "u64", "i64", "usize", "isize"}

PointerWidths == {32, 64}

\* 2^16 - 1, 2^15 - 1, 2^32 - 1, 2^31 - 1, 2^64 - 1, 2^63 - 1 and 2^64
U16Max == <<5535, 6>>
I16Max == <<2767, 3>>
U32Max == <<7295, 9496, 42>>
I32Max == <<3647, 4748, 21>>
U64Max == <<1615, 955, 737, 6744, 1844>>
I64Max == <<5807, 5477, 368, 3372, 922>>
TwoPow64 == <<1616, 955, 737, 6744, 1844>>

\* the literal 999_999_999_999_999_999 of the buffer choice
InlineBound == <<9999, 9999, 9999, 9999, 99>>

\* drop leading zero limbs (they are last in the sequence)
RECURSIVE Normalize(_)
Normalize(m) ==
  IF m = <<>> THEN m
  ELSE IF m[Len(m)] = 0 THEN Normalize(SubSeq(m, 1, Len(m) - 1))
  ELSE m

\* x > y for normalized magnitudes
RECURSIVE LimbGtFrom(_, _, _)
LimbGtFrom(x, y, i) ==
  IF i = 0 THEN FALSE
  ELSE IF x[i] # y[i] THEN x[i] > y[i]
  ELSE LimbGtFrom(x, y, i - 1)

LimbGt(x, y) ==
  IF Len(x) # Len(y) THEN Len(x) > Len(y) ELSE LimbGtFrom(x, y, Len(x))

\* x + 1 for a magnitude
RECURSIVE LimbSucc(_)
LimbSucc(x) ==
  IF x = <<>> THEN <<1>>
  ELSE IF x[1] < 9999 THEN <<x[1] + 1>> \o Tail(x)
  ELSE <<0>> \o LimbSucc(Tail(x))

\* x - y for magnitudes x >= y, limb by limb with a borrow
RECURSIVE LimbSubFrom(_, _, _, _)
LimbSubFrom(x, y, i, borrow) ==
  IF i > Len(x) THEN <<>>
  ELSE LET yi == IF i <= Len(y) THEN y[i] ELSE 0
           d == x[i] - yi - borrow
       IN IF d < 0
          THEN <<d + 10000>> \o LimbSubFrom(x, y, i + 1, 1)
          ELSE <<d>> \o LimbSubFrom(x, y, i + 1, 0)

LimbSub(x, y) == Normalize(LimbSubFrom(x, y, 1, 0))

\* the type's pointer-independent name: usize and isize are the 32-bit or the
\* 64-bit types of the target
BaseType(ty, ptr) ==
  IF ty = "usize" THEN (IF ptr = 32 THEN "u32" ELSE "u64")
  ELSE IF ty = "isize" THEN (IF ptr = 32 THEN "i32" ELSE "i64")
  ELSE ty

\* ::std::$t::MAX
TypeMax(ty, ptr) ==
  LET t == BaseType(ty, ptr) IN
  IF t = "u16" THEN U16Max
  ELSE IF t = "i16" THEN I16Max
  ELSE IF t = "u32" THEN U32Max
  ELSE IF t = "i32" THEN I32Max
  ELSE IF t = "u64" THEN U64Max
  ELSE I64Max

IsSigned(ty) == ty \in {"i16", "i32", "i64", "isize"}

\* n is a value of its type: 0 <= n <= MAX, or -(MAX + 1) <= n < 0 when signed
InRange(n, ptr) ==
  IF n.neg
  THEN IsSigned(n.ty) /\ n.mag # <<>>
       /\ ~LimbGt(n.mag, LimbSucc(TypeMax(n.ty, ptr)))
  ELSE ~LimbGt(n.mag, TypeMax(n.ty, ptr))

\* the $max_len of the from_integers! invocations
max_len(ty, ptr) ==
  LET t == BaseType(ty, ptr) IN
  IF t = "u16" THEN 5
  ELSE IF t = "i16" THEN 6
  ELSE IF t = "u32" THEN 10
  ELSE IF t = "i32" THEN 11
  ELSE 20

\* num as u64: a negative value sign-extends to 2^64 - |num|
as_u64(n) == IF n.neg THEN LimbSub(TwoPow64, n.mag) ELSE n.mag

\* mem::size_of::<BytesMut>(): four pointers
size_of_BytesMut(ptr) == 4 * (ptr \div 8)

\* BytesMut::new(): the inline buffer, of capacity size_of::<BytesMut>() - 1
BytesMut_new(ptr) ==
  [cap |-> size_of_BytesMut(ptr) - 1, data |-> <<>>, heap |-> FALSE]

\* BytesMut::with_capacity(c): inline when c fits, else a heap buffer of c bytes
BytesMut_with_capacity(c, ptr) ==
  IF c <= size_of_BytesMut(ptr) - 1 THEN BytesMut_new(ptr)
  ELSE [cap |-> c, data |-> <<>>, heap |-> TRUE]

\* <BytesMut as fmt::Write>::write_str: appends s when it fits in the
\* remaining capacity, else writes nothing and returns Err, which the caller
\* discards (let _ = ...)
write_str(buf, s) ==
  IF buf.cap - Len(buf.data) >= Len(s)
  THEN [buf EXCEPT !.data = buf.data \o s]
  ELSE buf

\* an entry of itoa's two-digit table DEC_DIGITS_LUT
Lut(d) == <<48 + (d \div 10), 48 + (d % 10)>>

\* itoa: four digits at a time while n >= 10000, then the last one to four
RECURSIVE ItoaLoop(_, _)
ItoaLoop(mag, out) ==
  IF Len(mag) > 1
  THEN LET rem == Head(mag) IN
       ItoaLoop(Tail(mag), Lut(rem \div 100) \o Lut(rem % 100) \o out)
  ELSE LET n == IF mag = <<>> THEN 0 ELSE mag[1]
           out2 == IF n >= 100 THEN Lut(n % 100) \o out ELSE out
           n2 == IF n >= 100 THEN n \div 100 ELSE n
       IN IF n2 < 10 THEN <<48 + n2>> \o out2 ELSE Lut(n2) \o out2

\* the text ::itoa::fmt hands to write_str in one piece
itoa(n) == IF n.neg THEN <<45>> \o ItoaLoop(n.mag, <<>>) ELSE ItoaLoop(n.mag, <<>>)

\* the buffer choice of From<$t> for HeaderValue
choose_buf(n, ptr) ==
  IF size_of_BytesMut(ptr) - 1 < max_len(n.ty, ptr)
  THEN IF LimbGt(as_u64(n), InlineBound)
       THEN BytesMut_with_capacity(max_len(n.ty, ptr), ptr)
       ELSE BytesMut_new(ptr)
  ELSE BytesMut_new(ptr)

\* <HeaderValue as From<$t>>::from
from_integer(n, ptr) ==
  LET buf == write_str(choose_buf(n, ptr), itoa(n)) IN
  [val |-> HeaderValue(buf.data, FALSE), alloc |-> choose_buf(n, ptr).heap]

----------------------------------------------------------------------------
(* Inputs *)

\* every byte sequence over S of length at most n
RECURSIVE SeqsUpTo(_, _)
SeqsUpTo(S, n) ==
  IF n = 0 THEN {<<>>}
  ELSE LET shorter == SeqsUpTo(S, n - 1) IN
       shorter \cup {Append(q, b) : q \in shorter, b \in S}

\* a line feed, the letter h and an opaque octet
Alphabet == {10, 104, 231}

AllBytes == 0 .. 255

TestVectors == {Hello, HelloWorld, U7FFFHello, Password, HelloFa}

\* the byte inputs of a single-construction run
RunInputs ==
  SeqsUpTo(Alphabet, MaxLen) \cup {<<b>> : b \in AllBytes} \cup TestVectors

\* the byte inputs of the two-handle machine
CoreInputs == {<<>>, <<104>>, <<104, 231>>, <<231>>, <<10>>, <<127>>}

IsCont(b) == b >= 128 /\ b <= 191

\* the bytes are well-formed UTF-8 (what a &str argument always is)
RECURSIVE IsUtf8From(_, _)
IsUtf8From(s, i) ==
  IF i > Len(s) THEN TRUE
  ELSE LET b == s[i]
           c1 == IF i + 1 <= Len(s) THEN s[i + 1] ELSE 0
           c2 == IF i + 2 <= Len(s) THEN s[i + 2] ELSE 0
           c3 == IF i + 3 <= Len(s) THEN s[i + 3] ELSE 0
       IN IF b < 128 THEN IsUtf8From(s, i + 1)
          ELSE IF b >= 194 /\ b <= 223
          THEN IsCont(c1) /\ IsUtf8From(s, i + 2)
          ELSE IF b >= 224 /\ b <= 239
          THEN /\ IsCont(c1) /\ IsCont(c2)
               /\ (b = 224 => c1 >= 160)
               /\ (b = 237 => c1 <= 159)
               /\ IsUtf8From(s, i + 3)
          ELSE IF b >= 240 /\ b <= 244
          THEN /\ IsCont(c1) /\ IsCont(c2) /\ IsCont(c3)
               /\ (b = 240 => c1 >= 144)
               /\ (b = 244 => c1 <= 143)
               /\ IsUtf8From(s, i + 4)
          ELSE FALSE

IsUtf8(s) == IsUtf8From(s, 1)

\* the bytes a header name may hold: the token characters ! # $ % & ' * + -
\* . ^ _ ` | ~, the digits and the lower-case letters
HeaderNameBytes ==
  {33, 35, 36, 37, 38, 39, 42, 43, 45, 46, 94, 95, 96, 124, 126}
    \cup (48 .. 57) \cup (97 .. 122)

\* header names, as their bytes: the names of the tests and every name of
\* one legal byte
HeaderNames ==
  {Upgrade, HelloDashWorld, Accept, SecWebsocketProtocol}
    \cup {<<b>> : b \in HeaderNameBytes}

\* magnitudes around the type limits, the buffer-choice bound and the inline
\* capacities: 0, 7, 55, 100, 12345, 10^15 - 1, 10^15, 10^18 - 1, 10^18, ...
Mags ==
  {<<>>, <<1>>, <<7>>, <<55>>, <<100>>, <<2345, 1>>,
   U16Max, I16Max, LimbSucc(I16Max), U32Max, I32Max, LimbSucc(I32Max),
   U64Max, I64Max, LimbSucc(I64Max),
   <<9999, 9999, 9999, 999>>, <<0, 0, 0, 1000>>,
   InlineBound, LimbSucc(InlineBound)}

Num(ty, neg, mag) == [ty |-> ty, neg |-> neg, mag |-> mag]

\* the integer inputs of a single-construction run on a target
RunInts(ptr) ==
  {n \in {Num(ty, neg, mag) : ty \in IntTypes, neg \in BOOLEAN, mag \in Mags} :
     InRange(n, ptr)}

\* the integer inputs of the two-handle machine
CoreInts ==
  {Num("u16", FALSE, <<55>>), Num("i64", TRUE, <<1>>),
   Num("u64", FALSE, <<0, 0, 0, 1000>>)}

----------------------------------------------------------------------------
(* State machine *)

Init ==
  /\ vals = [h \in Handles |-> NoValue]
  /\ last = NoLast
  /\ debug_assertions \in BOOLEAN
  /\ target_pointer_width \in PointerWidths

Build == <<debug_assertions, target_pointer_width>>

\* a constructor returned r for handle h: the container is stored on Ok, and
\* nothing changes on an error or a panic
Constructed(op, h, src, r) ==
  /\ vals' = IF r.kind = "Ok" THEN [vals EXCEPT ![h] = r.val] ELSE vals
  /\ last' = [NoLast EXCEPT !.op = op, !.h = h, !.src = src, !.kind = r.kind]
  /\ UNCHANGED Build

FromStatic(h, src) ==
  /\ IsUtf8(src)
  /\ Constructed("from_static", h, src, from_static(src))

FromStr(h, src) ==
  /\ IsUtf8(src)
  /\ Constructed("from_str", h, src, from_bytes(src))

FromBytes(h, src) == Constructed("from_bytes", h, src, from_bytes(src))

FromShared(h, src) == Constructed("from_shared", h, src, from_shared(src))

FromSharedUnchecked(h, src) ==
  Constructed("from_shared_unchecked", h, src,
              from_shared_unchecked(src, debug_assertions))

\* a conversion from a header name that marks the value sensitive
from_name_marked_sensitive(name) == HeaderValue(name, TRUE)

\* From<HeaderName> for HeaderValue: the name's bytes, unvalidated
from_name(name) == HeaderValue(name, FALSE)

\* HttpTryFrom<HeaderName> for HeaderValue: Ok(name.into())
try_from_name(name) == [kind |-> "Ok", val |-> from_name(name)]

TryFromName(h, name) ==
  Constructed("try_from_name", h, name, try_from_name(name))

FromName(h, name) ==
  Constructed("from_name", h, name, [kind |-> "Ok", val |-> from_name(name)])

FromInteger(h, n) ==
  LET r == from_integer(n, target_pointer_width) IN
  /\ InRange(n, target_pointer_width)
  /\ vals' = [vals EXCEPT ![h] = r.val]
  /\ last' = [NoLast EXCEPT !.op = "from_integer", !.h = h, !.num = n,
                            !.kind = "Ok", !.alloc = r.alloc]
  /\ UNCHANGED Build

\* #[derive(Clone)] and From<&HeaderValue>: both fields are copied
clone(v) == HeaderValue(v.inner, v.is_sensitive)

Clone(h, h2) ==
  /\ vals[h].live
  /\ h # h2
  /\ vals' = [vals EXCEPT ![h2] = clone(vals[h])]
  /\ last' = [NoLast EXCEPT !.op = "clone", !.h = h, !.h2 = h2, !.kind = "Ok",
                            !.pre = vals[h], !.pre2 = vals[h2]]
  /\ UNCHANGED Build

\* a setter that can raise the flag but not clear it
set_sensitive_only_raises(v, val) ==
  [v EXCEPT !.is_sensitive = v.is_sensitive \/ val]

\* HeaderValue::set_sensitive
set_sensitive(v, val) == [v EXCEPT !.is_sensitive = val]

SetSensitive(h, val) ==
  /\ vals[h].live
  /\ vals' = [vals EXCEPT ![h] = set_sensitive(vals[h], val)]
  /\ last' = [NoLast EXCEPT !.op = "set_sensitive", !.h = h, !.kind = "Ok",
                            !.flag = val, !.pre = vals[h]]
  /\ UNCHANGED Build

\* HeaderValue::is_sensitive
is_sensitive(v) == v.is_sensitive

IsSensitive(h) ==
  /\ vals[h].live
  /\ last' = [NoLast EXCEPT !.op = "is_sensitive", !.h = h, !.kind = "Ok",
                            !.flag = is_sensitive(vals[h]), !.pre = vals[h]]
  /\ UNCHANGED <<vals, Build>>

ToStr(h) ==
  LET r == to_str(vals[h]) IN
  /\ vals[h].live
  /\ last' = [NoLast EXCEPT !.op = "to_str", !.h = h, !.kind = r.kind,
                            !.out = r.out, !.pre = vals[h]]
  /\ UNCHANGED <<vals, Build>>

Fmt(h) ==
  /\ vals[h].live
  /\ last' = [NoLast EXCEPT !.op = "fmt", !.h = h, !.kind = "Ok",
                            !.out = fmt(vals[h]), !.pre = vals[h]]
  /\ UNCHANGED <<vals, Build>>

Hash(h) ==
  /\ vals[h].live
  /\ last' = [NoLast EXCEPT !.op = "hash", !.h = h, !.kind = "Ok",
                            !.out = hash(vals[h]), !.pre = vals[h]]
  /\ UNCHANGED <<vals, Build>>

Eq(h, h2) ==
  /\ vals[h].live /\ vals[h2].live
  /\ last' = [NoLast EXCEPT !.op = "eq", !.h = h, !.h2 = h2, !.kind = "Ok",
                            !.flag = eq(vals[h], vals[h2]),
                            !.pre = vals[h], !.pre2 = vals[h2]]
  /\ UNCHANGED <<vals, Build>>

Cmp(h, h2) ==
  /\ vals[h].live /\ vals[h2].live
  /\ last' = [NoLast EXCEPT !.op = "cmp", !.h = h, !.h2 = h2,
                            !.kind = cmp(vals[h], vals[h2]),
                            !.pre = vals[h], !.pre2 = vals[h2]]
  /\ UNCHANGED <<vals, Build>>

\* From<HeaderValue> for Bytes: the container is consumed, its buffer returned
IntoBytes(h) ==
  /\ vals[h].live
  /\ vals' = [vals EXCEPT ![h] = NoValue]
  /\ last' = [NoLast EXCEPT !.op = "into_bytes", !.h = h, !.kind = "Ok",
                            !.out = vals[h].inner, !.pre = vals[h]]
  /\ UNCHANGED Build

\* the two-handle machine: any operation at any time, on small inputs
Next ==
  \/ \E h \in Handles, src \in CoreInputs : FromStatic(h, src)
  \/ \E h \in Handles, src \in CoreInputs : FromStr(h, src)
  \/ \E h \in Handles, src \in CoreInputs : FromBytes(h, src)
  \/ \E h \in Handles, src \in CoreInputs : FromShared(h, src)
  \/ \E h \in Handles, src \in CoreInputs : FromSharedUnchecked(h, src)
  \/ \E h \in Handles, name \in {Upgrade} : FromName(h, name)
  \/ \E h \in Handles, n \in CoreInts : FromInteger(h, n)
  \/ \E h \in Handles, h2 \in Handles : Clone(h, h2)
  \/ \E h \in Handles, val \in BOOLEAN : SetSensitive(h, val)
  \/ \E h \in Handles : IsSensitive(h)
  \/ \E h \in Handles : ToStr(h)
  \/ \E h \in Handles : Fmt(h)
  \/ \E h \in Handles : Hash(h)
  \/ \E h \in Handles, h2 \in Handles : Eq(h, h2)
  \/ \E h \in Handles, h2 \in Handles : Cmp(h, h2)
  \/ \E h \in Handles : IntoBytes(h)

Spec == Init /\ [][Next]_vars

\* a run that constructs once, into handle a, from the wide inputs, and then
\* uses the container
Fresh == last.op = "none"

NextOnce ==
  \/ Fresh /\ \E src \in RunInputs : FromStatic("a", src)
  \/ Fresh /\ \E src \in RunInputs : FromStr("a", src)
  \/ Fresh /\ \E src \in RunInputs : FromBytes("a", src)
  \/ Fresh /\ \E src \in RunInputs : FromShared("a", src)
  \/ Fresh /\ \E src \in RunInputs : FromSharedUnchecked("a", src)
  \/ Fresh /\ \E name \in HeaderNames : FromName("a", name)
  \/ Fresh /\ \E name \in HeaderNames : TryFromName("a", name)
  \/ Fresh /\ \E n \in RunInts(target_pointer_width) : FromInteger("a", n)
  \/ \E val \in BOOLEAN : SetSensitive("a", val)
  \/ IsSensitive("a")
  \/ ToStr("a")
  \/ Fmt("a")
  \/ Hash("a")
  \/ IntoBytes("a")

SpecOnce == Init /\ [][NextOnce]_vars

----------------------------------------------------------------------------
(* Properties *)

\* every byte is >= 32 and not 127, or is the tab byte 9
AllValid(src) ==
  \A i \in 1 .. Len(src) : (src[i] >= 32 /\ src[i] # 127) \/ src[i] = 9

\* every byte is in 32..126, or is the tab byte 9
AllVisible(src) ==
  \A i \in 1 .. Len(src) : (src[i] >= 32 /\ src[i] < 127) \/ src[i] = 9

\* C1: from_bytes, from_str and from_shared succeed exactly on the inputs whose
\* bytes are all valid; on success the container holds the input bytes and is
\* not sensitive; on failure from_bytes and from_str report InvalidHeaderValue
\* and from_shared reports InvalidHeaderValueBytes; the single bytes 9 and 32
\* are accepted, 31 and 127 rejected.
ValidatingConstructors ==
  last.op \in {"from_bytes", "from_str", "from_shared"} =>
    /\ (last.kind = "Ok") <=> AllValid(last.src)
    /\ last.kind = "Ok" =>
         vals[last.h] = [live |-> TRUE, inner |-> last.src, is_sensitive |-> FALSE]
    /\ last.kind # "Ok" =>
         last.kind = IF last.op = "from_shared" THEN "InvalidHeaderValueBytes"
                     ELSE "InvalidHeaderValue"
    /\ last.src \in {<<9>>, <<32>>} => last.kind = "Ok"
    /\ last.src \in {<<31>>, <<127>>} => last.kind # "Ok"

\* from_bytes accepted a text that ends in the opaque octet 0xfa
ValidatingConstructorsWitness ==
  /\ last.op = "from_bytes"
  /\ last.kind = "Ok"
  /\ last.src = HelloFa
  /\ vals["a"].inner = HelloFa

CheckedConstructors ==
  {"from_static", "from_str", "from_bytes", "from_shared", "from_name",
   "try_from_name", "from_integer"}

\* C2: invariant I1.  In a debug build every byte of every existing container
\* is valid, whatever constructor made it and whatever was done to it since;
\* in any build a container just returned by a constructor other than
\* from_shared_unchecked has only valid bytes.
InvariantI1 ==
  /\ debug_assertions =>
       \A h \in Handles : vals[h].live => AllValid(vals[h].inner)
  /\ (last.op \in CheckedConstructors /\ last.kind = "Ok") =>
       AllValid(vals[last.h].inner)

\* a debug build refused an invalid buffer in from_shared_unchecked while both
\* handles hold containers, one of them a clone marked sensitive
InvariantI1Witness ==
  /\ debug_assertions
  /\ last.op = "from_shared_unchecked"
  /\ last.kind = "panic"
  /\ vals["a"].live /\ vals["b"].live
  /\ vals["b"].is_sensitive

\* the four decimal digits of a limb, most significant first
FourDigits(l) ==
  <<48 + (l \div 1000), 48 + ((l \div 100) % 10), 48 + ((l \div 10) % 10),
    48 + (l % 10)>>

\* the digits of all limbs, most significant limb first
RECURSIVE AllDigits(_)
AllDigits(mag) ==
  IF mag = <<>> THEN <<>> ELSE AllDigits(Tail(mag)) \o FourDigits(Head(mag))

RECURSIVE StripZeros(_)
StripZeros(d) ==
  IF d = <<>> THEN <<48>>
  ELSE IF d[1] = 48 THEN StripZeros(Tail(d))
  ELSE d

\* the decimal text of n: a '-' when negative, then the digits without
\* leading zeros
DecimalText(n) ==
  IF n.neg THEN <<45>> \o StripZeros(AllDigits(n.mag))
  ELSE StripZeros(AllDigits(n.mag))

\* the inline capacity of the claim: 15 bytes on a 32-bit target, 31 on a
\* 64-bit one
InlineCapacity == IF target_pointer_width = 32 THEN 15 ELSE 31

\* C3: the container made from an integer n holds exactly the decimal text of
\* n and is not sensitive, on the 32-bit and on the 64-bit layout.
IntegerIsDecimalText ==
  last.op = "from_integer" =>
    vals[last.h] = [live |-> TRUE, inner |-> DecimalText(last.num),
                    is_sensitive |-> FALSE]

\* C4: the integer conversion takes the allocating branch only when the
\* decimal length of n, sign included, exceeds the inline capacity, and the
\* bound of the decision is the largest value that fits the inline capacity
\* (every longer value is above it, so it gets the larger buffer).
AllocatesOnlyWhenNeeded ==
  last.op = "from_integer" =>
    /\ last.alloc => Len(DecimalText(last.num)) > InlineCapacity
    /\ Len(DecimalText(last.num)) > InlineCapacity => last.alloc

\* x sorts before y in the lexicographic order of bytes: at the first place
\* where they differ x has the smaller byte, or x is a proper prefix of y
LexLess(x, y) ==
  \E k \in 0 .. Len(x) :
    /\ k <= Len(y)
    /\ SubSeq(x, 1, k) = SubSeq(y, 1, k)
    /\ IF k = Len(x) THEN k < Len(y)
       ELSE k < Len(y) /\ x[k + 1] < y[k + 1]

\* C5: equality and ordering of two containers depend on the bytes alone:
\* a == b exactly when the byte sequences are equal, cmp is the lexicographic
\* order of the bytes, and containers with the same bytes and different
\* sensitivity flags are equal and compare Equal.
ComparisonIgnoresSensitivity ==
  /\ last.op = "eq" => (last.flag <=> last.pre.inner = last.pre2.inner)
  /\ last.op = "cmp" =>
       /\ last.kind = "Less" <=> LexLess(last.pre.inner, last.pre2.inner)
       /\ last.kind = "Greater" <=> LexLess(last.pre2.inner, last.pre.inner)
       /\ last.kind = "Equal" <=> last.pre.inner = last.pre2.inner
  /\ last.op \in {"eq", "cmp"} =>
       /\ vals[last.h] = last.pre
       /\ vals[last.h2] = last.pre2

\* two containers with the same non-empty bytes and different flags were
\* compared
ComparisonIgnoresSensitivityWitness ==
  /\ last.op = "cmp"
  /\ last.kind = "Equal"
  /\ last.pre.inner = last.pre2.inner
  /\ last.pre.inner # <<>>
  /\ last.pre.is_sensitive # last.pre2.is_sensitive

\* C6: the data a container feeds to the hasher is the data fed by every
\* container that compares equal to it, whatever their sensitivity flags, so
\* set_sensitive never changes the hash.
HashIgnoresSensitivity ==
  last.op = "hash" =>
    \A y \in Handles :
      (vals[y].live /\ eq(last.pre, vals[y])) => last.out = hash(vals[y])

\* C7 as claimed: from_static panics exactly when some byte is not valid, and
\* otherwise returns a non-sensitive container of the text's bytes.
FromStaticPanicsIffInvalid ==
  last.op = "from_static" =>
    /\ (last.kind = "panic") <=> ~AllValid(last.src)
    /\ last.kind # "panic" =>
         /\ last.kind = "Ok"
         /\ vals[last.h] =
              [live |-> TRUE, inner |-> last.src, is_sensitive |-> FALSE]

\* C7 as amended: from_static panics exactly when some byte is not visible
\* ASCII (below 32 other than tab, or 127 and above), and otherwise returns a
\* non-sensitive container of the text's bytes.
FromStaticPanicsIffNotVisible ==
  last.op = "from_static" =>
    /\ (last.kind = "panic") <=> ~AllVisible(last.src)
    /\ last.kind # "panic" =>
         /\ last.kind = "Ok"
         /\ vals[last.h] =
              [live |-> TRUE, inner |-> last.src, is_sensitive |-> FALSE]

\* from_static panicked on a well-formed text whose bytes are all valid
FromStaticWitness ==
  /\ last.op = "from_static"
  /\ last.src = U7FFFHello
  /\ last.kind = "panic"
  /\ ~vals["a"].live

\* C8: the Debug rendering of a sensitive container is exactly the text
\* Sensitive, whatever the bytes, so any two sensitive containers render
\* alike.
SensitiveRendersOpaque ==
  /\ (last.op = "fmt" /\ last.pre.is_sensitive) =>
       last.out = <<83, 101, 110, 115, 105, 116, 105, 118, 101>>
  /\ \A x \in Handles, y \in Handles :
       (vals[x].live /\ vals[y].live
          /\ vals[x].is_sensitive /\ vals[y].is_sensitive) =>
         fmt(vals[x]) = fmt(vals[y])

\* a sensitive container was rendered while the other handle holds a sensitive
\* container of different bytes
SensitiveRendersOpaqueWitness ==
  /\ last.op = "fmt"
  /\ last.h = "a"
  /\ last.pre.is_sensitive
  /\ last.pre.inner = <<104, 231>>
  /\ vals["b"].live /\ vals["b"].is_sensitive
  /\ vals["b"].inner = <<104>>

\* the two lowercase hex digits of a byte
TwoHex(b) == <<HexDigits[(b \div 16) + 1], HexDigits[(b % 16) + 1]>>

\* the piece of the quoted rendering for one byte
Piece(b) ==
  IF b = 34 THEN <<92, 34>>
  ELSE IF (b >= 32 /\ b < 127) \/ b = 9 THEN <<b>>
  ELSE <<92, 120>> \o TwoHex(b)

RECURSIVE Pieces(_)
Pieces(bytes) ==
  IF bytes = <<>> THEN <<>> ELSE Piece(Head(bytes)) \o Pieces(Tail(bytes))

\* C9: the Debug rendering of a non-sensitive container is a quote, one piece
\* per byte in order, and a quote; the piece is the byte itself when visible
\* and not a quote, \" for a quote, and \x with exactly two lowercase hex
\* digits for any other byte.
QuotedRendering ==
  (last.op = "fmt" /\ ~last.pre.is_sensitive) =>
    last.out = <<34>> \o Pieces(last.pre.inner) \o <<34>>

\* C10: to_str succeeds exactly when every byte is visible ASCII; on success
\* the text is the container's bytes, on failure the result is ToStrError; the
\* container is unchanged.
ToStrIffVisible ==
  last.op = "to_str" =>
    /\ (last.kind = "Ok") <=> AllVisible(last.pre.inner)
    /\ last.kind = "Ok" => last.out = last.pre.inner
    /\ last.kind # "Ok" => last.kind = "ToStrError"
    /\ vals[last.h] = last.pre

\* to_str failed on a container that from_bytes accepted with an opaque octet
ToStrIffVisibleWitness ==
  /\ last.op = "to_str"
  /\ last.kind = "ToStrError"
  /\ last.pre.inner = HelloFa
  /\ vals["a"].inner = HelloFa

\* C11: from_name, and the From and HttpTryFrom conversions of a header name,
\* never fail: for a legal header name of bytes s the result is a
\* non-sensitive container of the bytes s, from_bytes(s) succeeds because every
\* byte of s is valid, and the two containers are equal.
FromNameIsFromBytes ==
  last.op \in {"from_name", "try_from_name"} =>
    /\ last.kind = "Ok"
    /\ vals[last.h] = [live |-> TRUE, inner |-> last.src, is_sensitive |-> FALSE]
    /\ AllValid(last.src)
    /\ from_bytes(last.src).kind = "Ok"
    /\ eq(vals[last.h], from_bytes(last.src).val)
    /\ vals[last.h] = from_bytes(last.src).val

\* the header name upgrade was converted
FromNameIsFromBytesWitness ==
  /\ last.op = "from_name"
  /\ last.src = Upgrade
  /\ last.kind = "Ok"
  /\ vals["a"].inner = Upgrade

Constructors ==
  {"from_static", "from_str", "from_bytes", "from_shared",
   "from_shared_unchecked", "from_name", "try_from_name", "from_integer"}

\* every handle other than h holds what it held before the step
OthersUnchanged(h) == \A o \in Handles \ {h} : vals'[o] = vals[o]

\* what one call, the one recorded in last', does to the flags and the bytes
FlagStep ==
  /\ last'.op = "set_sensitive" =>
       /\ vals'[last'.h] = [live |-> TRUE, inner |-> vals[last'.h].inner,
                            is_sensitive |-> last'.flag]
       /\ OthersUnchanged(last'.h)
  /\ last'.op = "is_sensitive" =>
       /\ last'.flag = vals[last'.h].is_sensitive
       /\ vals' = vals
  /\ last'.op = "clone" =>
       /\ vals'[last'.h2] = [live |-> TRUE, inner |-> vals[last'.h].inner,
                             is_sensitive |-> vals[last'.h].is_sensitive]
       /\ OthersUnchanged(last'.h2)
  /\ (last'.op \in Constructors /\ last'.kind = "Ok") =>
       /\ vals'[last'.h].live
       /\ ~vals'[last'.h].is_sensitive
       /\ OthersUnchanged(last'.h)
  /\ (last'.op \in Constructors /\ last'.kind # "Ok") => vals' = vals
  /\ last'.op \in {"to_str", "fmt", "hash", "eq", "cmp"} => vals' = vals
  /\ last'.op = "into_bytes" => OthersUnchanged(last'.h)

\* C12: the sensitivity flag is per handle and is the only thing that changes:
\* a constructed handle starts with the flag false, a cloned handle with the
\* flag of its source at that time, set_sensitive makes the flag of its handle
\* its argument and touches neither that handle's bytes nor any other handle
\* (clones of the same bytes included), no other call changes a flag, and
\* is_sensitive returns the flag; so is_sensitive returns the argument of the
\* latest set_sensitive on the handle, or else the flag the handle started with.
FlagIsPerHandle == [][FlagStep]_vars

\* b was cloned from a sensitive a and then cleared, and a is still sensitive
FlagIsPerHandleWitness ==
  /\ last.op = "set_sensitive"
  /\ last.h = "b"
  /\ last.flag = FALSE
  /\ last.pre.is_sensitive
  /\ vals["b"].live /\ ~vals["b"].is_sensitive
  /\ vals["a"].live /\ vals["a"].is_sensitive
  /\ vals["a"].inner = vals["b"].inner
  /\ vals["a"].inner # <<>>

====
